---- MODULE Spec2Model ----
(***************************************************************************)
(* State-machine model of CashpassportConnector (src/src/connector.py):    *)
(* one Session object used by the worker threads of the threaded Flask     *)
(* server (src/src/server.py, app.run(threaded=True)).                     *)
(*                                                                         *)
(* A thread runs one connector method at a time.  A method is cut into     *)
(* steps at its network requests: a step reads the page left by the        *)
(* previous request, does the processing that follows it and issues the    *)
(* next request, whose answer (a page, a redirect, or a transport failure) *)
(* is chosen by the remote site.  Other threads run between the steps.     *)
(* An exception that leaves a method is recorded as the method's outcome.  *)
(*                                                                         *)
(* login and logout are cut at every request (Spec).  The authorised       *)
(* reads, get_balance and get_transactions, take one step per page asked   *)
(* for: the request, its answer and the processing of the page up to the   *)
(* next request or the return (SpecTx, one caller on a Session).           *)
(* SpecShared puts a development-mode Session beside another Session that  *)
(* writes the same test_pages files; SpecServer runs the /get-balance      *)
(* handler of server.py for one handle on the request threads.  SpecParse  *)
(* applies _parse_transactions to saved pages with cleared and pending     *)
(* rows, for Sessions of several time zones.                               *)
(***************************************************************************)
EXTENDS Integers, Sequences, FiniteSets, TLC

\* ------------------------------------------------------------------ bounds
NThreads == 2
NTokens == 2
MaxTs == 1
MaxRows == 2
MaxCycles == 2

Threads == 1..NThreads
Tokens == 1..NTokens

\* ------------------------------------------------------ program constants
ERROR_BAD_PASSWORD == "BadPassword"
ERROR_BAD_USER_ID == "BadUserId"
ERROR_BAD_SECURITY_MESSAGE == "BadSecurityMessage"
ERROR_BAD_SECURITY_ANSWER == "BadSecurityAnswer"
ERROR_LOGGED_OUT == "LoggedOut"
ERROR_LOGIN_IN_PROGRESS == "LoginInProgress"
CONNECTION_ERROR == "ConnectionError"
STATE_IDLE == "Idle"
STATE_LOGGING_IN == "LoggingIn"

\* Values of __logged_in_token: False after construction, None after a
\* logout, a failed security answer or a redirect, the landing page's token
\* (1..NTokens) after a login, "DUMMY" in development mode.
PyFalse == 0
PyNone == 0 - 1
DUMMY == 0 - 2
NoTok == 0

\* Python truthiness of __logged_in_token.
TruthyAlways(tok) == TRUE
Truthy(tok) == tok \notin {PyFalse, PyNone}

\* The expected security phrase of the credential set.
validation_message == "expected"

\* Outcomes that are exceptions leaving the method.
Exceptions == {"IndexError", "AttributeError", "LinkNotFoundError", "TypeError",
               "TransportError", "IOError"}

\* ------------------------------------------------------------ remote site
\* A page as the login code reads it: the token of the inline script
\* (NoTok: the pattern is absent), the form it holds, the text of the
\* security-phrase element ("missing": no such element), the profile link,
\* and the auto-logon checkbox of the challenge form.
Page(tok, form, phrase, profile, autoLogon) ==
    [tok |-> tok, form |-> form, phrase |-> phrase, profile |-> profile, autoLogon |-> autoLogon]

\* The pages the site answers with: landing pages with every token, and of
\* the later pages one with the last token and one without the pattern.
LandingPages == {Page(k, "login", "missing", FALSE, FALSE) : k \in Tokens \cup {NoTok}}
PhrasePages == {Page(k, "password", "expected", FALSE, FALSE) : k \in {NTokens, NoTok}}
    \cup {Page(NTokens, "password", ph, FALSE, FALSE) : ph \in {"", "other"}}
ChallengePages == {Page(k, "challenge", "missing", FALSE, TRUE) : k \in {NTokens, NoTok}}
    \cup {Page(NTokens, "challenge", "missing", FALSE, FALSE)}
HomePages == {Page(NTokens, "none", "missing", TRUE, FALSE)}
ErrorPages == {Page(NoTok, "none", "missing", FALSE, FALSE)}
Pages == LandingPages \cup PhrasePages \cup ChallengePages \cup HomePages \cup ErrorPages

\* self.browser: None before the first login, a browser that has opened
\* nothing, or a browser showing a page.
NoBrowser == Page(NoTok, "nobrowser", "missing", FALSE, FALSE)
BlankPage == Page(NoTok, "blank", "missing", FALSE, FALSE)

\* The text of an authorised page or of a test_pages file: its kind, the rows
\* of its transaction tables and the option values of its cycle selector.
Text(kind, rows, options) == [kind |-> kind, rows |-> rows, options |-> options]

\* Balance pages: with the balanceTotal marker, or without it.
BalanceBodies == {Text("balance", <<>>, <<>>), Text("nomarker", <<>>, <<>>)}

\* A test_pages file that does not exist, and one emptied by open(..., "w").
AbsentFile == Text("absent", <<>>, <<>>)
EmptyFile == Text("empty", <<>>, <<>>)

\* ERROR_LOGGED_OUT where a page text is expected.
LoggedOutValue == Text(ERROR_LOGGED_OUT, <<>>, <<>>)

\* A row of a transaction table: the local time of cell 0 (in hours) and the
\* status of cell 1.
Statuses == {"Posted", "Pending", "PENDING"}
Rows == [time : 0..MaxTs, status : Statuses]

\* The rows of the pages answered to get_transactions: cleared transactions.
TxRows == {r \in Rows : r.status = "Posted"}
SeqsUpTo(S, n) == UNION {[1..k -> S] : k \in 0..n}

\* Option values of the prepaidCycle selector: the cycles, the current one
\* first, after a placeholder option ("") or without one.
CycleNames == <<"CURRENT", "PREVIOUS", "OLDER", "OLDEST">>
Selectors == UNION {{SubSeq(CycleNames, 1, k), <<"">> \o SubSeq(CycleNames, 1, k)} : k \in 0..MaxCycles}

\* Transactions pages: the default page with its selector (or without one),
\* and the pages of the cycles.
DefaultPages == {Text("transactions", rows, options) :
                    rows \in SeqsUpTo(TxRows, MaxRows), options \in Selectors}
    \cup {Text("noselect", <<>>, <<>>)}
CyclePages == {Text("transactions", rows, <<>>) : rows \in SeqsUpTo(TxRows, MaxRows)}

\* Lower bounds asked for: all history, and bounds inside the rows' times.
FromTimestamps == 0..MaxTs

\* The UTC offset, in hours, of the credential set's time zone.
UTC == 0

\* UTC offsets, in hours, of the zones a Session is constructed with, and the
\* saved transactions pages a development-mode Session parses.
Offsets == {0 - 5, UTC, 1}
SavedPages == {Text("transactions", rows, options) :
                  rows \in SeqsUpTo(Rows, MaxRows), options \in Selectors}

\* ------------------------------------------------------------------ state
VARIABLES
    dev,            \* __DEV__
    state,          \* _state
    token,          \* __logged_in_token
    browser,        \* browser (its current page)
    balanceFile,    \* test_pages/balance.html
    transactionsFile, \* test_pages/transactions.html
    pc,             \* per thread: position in the running method
    op,             \* per thread: the method running or last run
    ret,            \* per thread: outcome of the last finished method
    csrfToken,      \* per thread: _login's local csrfToken
    resp,           \* per thread: the response being processed
    reqs,           \* per thread: requests issued by the running/last method
    time_zone,      \* __time_zone (its UTC offset in hours)
    from_ts,        \* per thread: get_transactions' from_ts
    periods,        \* per thread: the cycles get_transactions has yet to fetch
    transactions,   \* per thread: get_transactions' transactions, then its result
    fetched,        \* per thread: the records parsed from each page fetched by the call
    writer,         \* per test_pages file: the Session whose call wrote it last
    store,          \* server.py: the Session's handle is in token_to_api
    handler,        \* per thread: position in the /get-balance handler
    http            \* per thread: the answer of the thread's last request

sessVars == <<dev, state, token, browser>>
fileVars == <<balanceFile, transactionsFile, writer>>
txVars == <<from_ts, periods, transactions, fetched>>
vars == <<dev, state, token, browser, balanceFile, transactionsFile,
          pc, op, ret, csrfToken, resp, reqs, time_zone,
          from_ts, periods, transactions, fetched, writer, store, handler, http>>
srvVars == <<store, handler, http>>

NoResp == [ok |-> FALSE, body |-> Text("none", <<>>, <<>>)]

\* A request: what is asked for, and for a cycle page the posted prepaidCycle
\* and csrfToken.
Req(name) == [name |-> name, period |-> "", csrfToken |-> NoTok]
CycleReq(period, tok) == [name |-> "POST_TRANSACTIONS", period |-> period, csrfToken |-> tok]

\* No thread runs a method; the test_pages files do not exist yet.
InitRest ==
    /\ balanceFile = AbsentFile
    /\ transactionsFile = AbsentFile
    /\ pc = [t \in Threads |-> "idle"]
    /\ op = [t \in Threads |-> "none"]
    /\ ret = [t \in Threads |-> "none"]
    /\ csrfToken = [t \in Threads |-> NoTok]
    /\ resp = [t \in Threads |-> NoResp]
    /\ reqs = [t \in Threads |-> <<>>]
    /\ time_zone = UTC
    /\ from_ts = [t \in Threads |-> 0]
    /\ periods = [t \in Threads |-> <<>>]
    /\ transactions = [t \in Threads |-> <<>>]
    /\ fetched = [t \in Threads |-> <<>>]
    /\ writer = [balance |-> "nobody", transactions |-> "nobody"]
    /\ store = TRUE
    /\ handler = [t \in Threads |-> "none"]
    /\ http = [t \in Threads |-> "none"]

\* The Session after construction.
Init ==
    /\ dev \in BOOLEAN
    /\ state = STATE_IDLE
    /\ token = PyFalse
    /\ browser = NoBrowser
    /\ InitRest

\* ----------------------------------------------------------- step helpers
\* A thread enters a method; issued: the requests its first step sends.
Call(t, name, issued) ==
    /\ pc[t] = "idle"
    /\ op' = [op EXCEPT ![t] = name]
    /\ reqs' = [reqs EXCEPT ![t] = issued]

\* The locals of get_transactions before its first page.
NoTransactions(t) ==
    /\ periods' = [periods EXCEPT ![t] = <<>>]
    /\ transactions' = [transactions EXCEPT ![t] = <<>>]
    /\ fetched' = [fetched EXCEPT ![t] = <<>>]

\* A thread enters a method other than get_transactions.
CallOther(t, name, issued) ==
    /\ Call(t, name, issued)
    /\ from_ts' = [from_ts EXCEPT ![t] = 0]
    /\ NoTransactions(t)

\* The method returns outcome r, or raises exception r.
Finish(t, r) ==
    /\ pc' = [pc EXCEPT ![t] = "idle"]
    /\ ret' = [ret EXCEPT ![t] = r]

Goto(t, at) ==
    /\ pc' = [pc EXCEPT ![t] = at]
    /\ ret' = [ret EXCEPT ![t] = "none"]

Request(t, r) == reqs' = [reqs EXCEPT ![t] = Append(@, Req(r))]

\* _get_cstfToken_from_page: "ok", or the exception of reading the page.
TokenError(page) ==
    IF page.form \in {"nobrowser", "blank"} THEN "AttributeError"
    ELSE IF page.tok = NoTok THEN "IndexError"
    ELSE "ok"

\* browser.select_form(form id): "ok", or the exception it raises.
FormAlwaysFound(page, form) == "ok"
FormError(page, form) ==
    IF page.form \in {"nobrowser", "blank"} THEN "AttributeError"
    ELSE IF page.form # form THEN "LinkNotFoundError"
    ELSE "ok"

\* The security-phrase test of _login on the text of the phrase element.
PhraseVerdictNoCompare(found) ==
    IF found = "" THEN ERROR_BAD_USER_ID ELSE "ok"
PhraseVerdict(found) ==
    IF found = "" THEN ERROR_BAD_USER_ID
    ELSE IF found # validation_message THEN ERROR_BAD_SECURITY_MESSAGE
    ELSE "ok"

\* The token a successful _login stores: its local csrfToken, read from the
\* landing page (page is the page the success test ran on).
LoginTokenLastSeen(csrf, page) == page.tok
LoginToken(csrf, page) == csrf

\* ------------------------------------------------------------------ login
\* _login returns code to login(), which resets _state and returns it.
LoginReturn(t, code) ==
    /\ state' = STATE_IDLE
    /\ csrfToken' = [csrfToken EXCEPT ![t] = NoTok]
    /\ Finish(t, code)

\* An exception leaves _login and login(): _state is not reset.
LoginRaise(t, exc) ==
    /\ state' = state
    /\ csrfToken' = [csrfToken EXCEPT ![t] = NoTok]
    /\ Finish(t, exc)

\* The except clause around a request of _login: the transport failure is
\* answered by returning CONNECTION_ERROR.
LoginFetchFailureRaises(t) == LoginRaise(t, "TransportError")
LoginFetchFailure(t) == LoginReturn(t, CONNECTION_ERROR)

\* A request of _login inside try/except: a transport failure returns
\* CONNECTION_ERROR, an answer becomes the browser's page.  csrf is the
\* local csrfToken the step leaves.
LoginFetch(t, r, next, csrf) ==
    /\ Request(t, r)
    /\ \/ /\ LoginFetchFailure(t)
          /\ browser' = browser
       \/ \E p \in Pages :
            /\ browser' = p
            /\ state' = state
            /\ csrfToken' = [csrfToken EXCEPT ![t] = csrf]
            /\ Goto(t, next)

\* login(): the re-entrancy test.
login(t) ==
    /\ CallOther(t, "login", <<>>)
    /\ IF state = STATE_LOGGING_IN
         THEN Finish(t, ERROR_LOGIN_IN_PROGRESS)
         ELSE Goto(t, "login_set_state")
    /\ UNCHANGED <<srvVars, sessVars, fileVars, csrfToken, resp, time_zone>>

\* login() sets the flag and enters _login: development mode returns the
\* dummy token, otherwise a new browser is created.
login_set_state(t) ==
    /\ pc[t] = "login_set_state"
    /\ IF dev
         THEN /\ token' = DUMMY
              /\ browser' = browser
              /\ LoginReturn(t, "Token")
         ELSE /\ state' = STATE_LOGGING_IN
              /\ browser' = BlankPage
              /\ token' = token
              /\ csrfToken' = csrfToken
              /\ Goto(t, "login_open_main")
    /\ UNCHANGED <<srvVars, dev, fileVars, op, resp, reqs, time_zone, txVars>>

\* browser.open(MAIN_PAGE_URL)
login_open_main(t) ==
    /\ pc[t] = "login_open_main"
    /\ LoginFetch(t, "GET_MAIN", "login_user_id", NoTok)
    /\ UNCHANGED <<srvVars, dev, token, fileVars, op, resp, time_zone, txVars>>

\* Token T1, the user-id form, its submission.
login_user_id(t) ==
    /\ pc[t] = "login_user_id"
    /\ IF TokenError(browser) # "ok"
         THEN /\ LoginRaise(t, TokenError(browser))
              /\ UNCHANGED <<browser, reqs>>
       ELSE IF FormError(browser, "login") # "ok"
         THEN /\ LoginRaise(t, FormError(browser, "login"))
              /\ UNCHANGED <<browser, reqs>>
       ELSE LoginFetch(t, "SUBMIT_USER_ID", "login_phrase", browser.tok)
    /\ UNCHANGED <<srvVars, dev, token, fileVars, op, resp, time_zone, txVars>>

\* The security phrase, token T2, the password form, its submission.
login_phrase(t) ==
    /\ pc[t] = "login_phrase"
    /\ IF browser.form \in {"nobrowser", "blank"} \/ browser.phrase = "missing"
         THEN /\ LoginRaise(t, "AttributeError")
              /\ UNCHANGED <<browser, reqs>>
       ELSE IF PhraseVerdict(browser.phrase) # "ok"
         THEN /\ LoginReturn(t, PhraseVerdict(browser.phrase))
              /\ UNCHANGED <<browser, reqs>>
       ELSE IF TokenError(browser) # "ok"
         THEN /\ LoginRaise(t, TokenError(browser))
              /\ UNCHANGED <<browser, reqs>>
       ELSE IF FormError(browser, "password") # "ok"
         THEN /\ LoginRaise(t, FormError(browser, "password"))
              /\ UNCHANGED <<browser, reqs>>
       ELSE LoginFetch(t, "SUBMIT_PASSWORD", "login_validate", csrfToken[t])
    /\ UNCHANGED <<srvVars, dev, token, fileVars, op, resp, time_zone, txVars>>

\* browser.open(VALIDATE_LOGIN_PAGE_URL)
login_validate(t) ==
    /\ pc[t] = "login_validate"
    /\ LoginFetch(t, "GET_VALIDATE", "login_security", csrfToken[t])
    /\ UNCHANGED <<srvVars, dev, token, fileVars, op, resp, time_zone, txVars>>

\* The challenge form, token T3, the auto-logon checkbox, the submission.
login_security(t) ==
    /\ pc[t] = "login_security"
    /\ IF FormError(browser, "challenge") = "LinkNotFoundError"
         THEN /\ LoginReturn(t, ERROR_BAD_PASSWORD)
              /\ UNCHANGED <<browser, reqs>>
       ELSE IF FormError(browser, "challenge") # "ok"
         THEN /\ LoginRaise(t, FormError(browser, "challenge"))
              /\ UNCHANGED <<browser, reqs>>
       ELSE IF TokenError(browser) # "ok"
         THEN /\ LoginRaise(t, TokenError(browser))
              /\ UNCHANGED <<browser, reqs>>
       ELSE IF ~browser.autoLogon
         THEN /\ LoginRaise(t, "IndexError")
              /\ UNCHANGED <<browser, reqs>>
       ELSE LoginFetch(t, "SUBMIT_SECURITY_ANSWER", "login_open_home", csrfToken[t])
    /\ UNCHANGED <<srvVars, dev, token, fileVars, op, resp, time_zone, txVars>>

\* The same step opening VALIDATE_LOGIN_PAGE_URL, as after the password.
login_open_validate(t) ==
    /\ pc[t] = "login_open_home"
    /\ LoginFetch(t, "GET_VALIDATE", "login_result", csrfToken[t])
    /\ UNCHANGED <<srvVars, dev, token, fileVars, op, resp, time_zone, txVars>>

\* browser.open(MAIN_PAGE_URL) after the security answer.
login_open_home(t) ==
    /\ pc[t] = "login_open_home"
    /\ LoginFetch(t, "GET_MAIN", "login_result", csrfToken[t])
    /\ UNCHANGED <<srvVars, dev, token, fileVars, op, resp, time_zone, txVars>>

\* The profile-link test, and login()'s return.
login_result(t) ==
    /\ pc[t] = "login_result"
    /\ IF browser.form \in {"nobrowser", "blank"}
         THEN /\ LoginRaise(t, "AttributeError")
              /\ token' = token
       ELSE IF browser.profile
         THEN /\ token' = LoginToken(csrfToken[t], browser)
              /\ LoginReturn(t, "Token")
       ELSE /\ token' = PyNone
            /\ LoginReturn(t, ERROR_BAD_SECURITY_ANSWER)
    /\ UNCHANGED <<srvVars, dev, browser, fileVars, op, resp, reqs, time_zone, txVars>>

\* ----------------------------------------------------------------- logout
\* logout(): development mode, or the logout request when a token is held.
\* browser.open is outside any try: a transport failure leaves as an exception.
logout(t) ==
    /\ CallOther(t, "logout", IF ~dev /\ Truthy(token) THEN <<Req("GET_LOGOUT")>> ELSE <<>>)
    /\ IF dev
         THEN /\ token' = PyNone
              /\ Finish(t, "True")
              /\ UNCHANGED <<browser, resp>>
       ELSE IF Truthy(token)
         THEN /\ token' = token
              /\ \/ /\ Finish(t, "TransportError")
                    /\ UNCHANGED <<browser, resp>>
                 \/ \E p \in LandingPages \cup ErrorPages, atLogin \in BOOLEAN :
                      /\ browser' = p
                      /\ resp' = [resp EXCEPT ![t] = [ok |-> atLogin, body |-> NoResp.body]]
                      /\ Goto(t, "logout_response")
       ELSE /\ Finish(t, "False")
            /\ UNCHANGED <<token, browser, resp>>
    /\ UNCHANGED <<srvVars, dev, state, fileVars, csrfToken, time_zone>>

\* response.url == LOGIN_PAGE_URL
logout_response(t) ==
    /\ pc[t] = "logout_response"
    /\ IF resp[t].ok
         THEN /\ token' = PyNone
              /\ Finish(t, "True")
         ELSE /\ token' = token
              /\ Finish(t, "False")
    /\ resp' = [resp EXCEPT ![t] = NoResp]
    /\ UNCHANGED <<srvVars, dev, state, browser, fileVars, op, csrfToken, reqs, time_zone, txVars>>

\* ------------------------------------------------------------ get_balance
\* The balance of a page text, or the exception of the [1] index.
BalanceOutcome(body) == IF body.kind = "balance" THEN "Balance" ELSE "IndexError"

\* _get_authorised_page sends the request when a browser exists and a token
\* is held.
MaySend == browser # NoBrowser /\ Truthy(token)

\* The answer of _get_authorised_page: the text when the response resolved
\* to the requested URL, otherwise ERROR_LOGGED_OUT (and the token is cleared).
AuthorisedPage(r) == IF r.ok THEN r.body ELSE LoggedOutValue

\* f.write(page) on a test_pages file: writing ERROR_LOGGED_OUT, an int,
\* raises TypeError after open(..., "w") has emptied the file.
WriteError(page) == IF page = LoggedOutValue THEN "TypeError" ELSE "ok"

\* The answers to a request for an authorised page: a redirect to another
\* URL, or the requested URL with a page of the set.
Answers(pages) == {NoResp} \cup {[ok |-> TRUE, body |-> b] : b \in pages}

\* The step of thread t opens a test_pages file for writing: outside
\* development mode, when the page is asked for (asked) and the request has
\* not raised.
Opens(t, asked) == ~dev /\ asked /\ ret'[t] # "TransportError"

\* get_balance(): the token test, then _get_balance_page: the file in
\* development mode; otherwise _get_authorised_page (which sends the request
\* when a token is held and clears the token unless the answer resolved to
\* the requested URL) and the write of its value to the file.  A transport
\* failure leaves get_balance as an exception.
get_balance(t) ==
    /\ CallOther(t, "get_balance", IF ~dev /\ MaySend THEN <<Req("GET_BALANCE")>> ELSE <<>>)
    /\ IF ~Truthy(token)
         THEN /\ Finish(t, ERROR_LOGGED_OUT)
              /\ UNCHANGED <<token, balanceFile>>
       ELSE IF dev
         THEN /\ IF balanceFile = AbsentFile
                   THEN Finish(t, "IOError")
                   ELSE Finish(t, BalanceOutcome(balanceFile))
              /\ UNCHANGED <<token, balanceFile>>
       ELSE \/ /\ MaySend
               /\ Finish(t, "TransportError")
               /\ UNCHANGED <<token, balanceFile>>
            \/ \E r \in (IF MaySend THEN Answers(BalanceBodies) ELSE {NoResp}) :
                 LET page == AuthorisedPage(r) IN
                 /\ token' = (IF r.ok THEN token ELSE PyNone)
                 /\ IF WriteError(page) # "ok"
                      THEN /\ balanceFile' = EmptyFile
                           /\ Finish(t, WriteError(page))
                      ELSE /\ balanceFile' = page
                           /\ Finish(t, BalanceOutcome(page))
    /\ writer' = IF Opens(t, Truthy(token)) THEN [writer EXCEPT !.balance = "this"] ELSE writer
    /\ UNCHANGED <<srvVars, dev, state, browser, transactionsFile, csrfToken, resp, time_zone>>

\* ------------------------------------------------------- get_transactions
\* str.lower() on the status text of cell 1.
Lower(status) ==
    IF status \in {"Pending", "PENDING"} THEN "pending"
    ELSE IF status = "Posted" THEN "posted"
    ELSE status

\* to_utc_timestamp of a local time with the zone's offset (in hours).
to_utc_timestamp(local, offset) == local - offset

\* One row parsed with a shift of 5 hours for an unverified row, whatever the
\* zone.
ParseRowFiveHours(row, offset) ==
    LET verified == Lower(row.status) # "pending"
        transaction_time == IF verified THEN row.time ELSE row.time + 5
    IN  [ts |-> to_utc_timestamp(transaction_time, offset), vertified |-> verified]

\* One row of _parse_transactions: an unverified row is moved by 5 hours plus
\* the UTC offset before the conversion.
ParseRow(row, offset) ==
    LET verified == Lower(row.status) # "pending"
        transaction_time == IF verified THEN row.time ELSE row.time + (5 + offset)
    IN  [ts |-> to_utc_timestamp(transaction_time, offset), vertified |-> verified]

parse_transactions(page, offset) ==
    [i \in 1..Len(page.rows) |-> ParseRow(page.rows[i], offset)]

filter_transactions_strict(all_transactions, from) ==
    LET Keep(x) == x.ts > from IN SelectSeq(all_transactions, Keep)
filter_transactions(all_transactions, from) ==
    LET Keep(x) == x.ts >= from IN SelectSeq(all_transactions, Keep)

drop_first_cycle(page) ==
    LET Valued(v) == v # "" IN Tail(SelectSeq(<<"">> \o page.options, Valued) \o <<"">>)
parse_cycles_from_page(page) ==
    LET Valued(v) == v # "" IN SelectSeq(page.options, Valued)

\* "for period in periods": the cycles left after the one just fetched.
remaining_periods_skip(ps) == IF Len(ps) > 1 THEN Tail(Tail(ps)) ELSE <<>>
remaining_periods(ps) == Tail(ps)

\* get_transactions goes on to the (next) cycle when the filter kept every
\* transaction of the page.
ContinuePagingAlways(required, all_transactions) == TRUE
ContinuePaging(required, all_transactions) == Len(required) = Len(all_transactions)

\* sorted(transactions, key=lambda x: x["ts"]): a stable sort by ts.
RECURSIVE InsertByTs(_, _)
InsertByTs(x, s) ==
    IF s = <<>> THEN <<x>>
    ELSE IF x.ts < Head(s).ts THEN <<x>> \o s
    ELSE <<Head(s)>> \o InsertByTs(x, Tail(s))

RECURSIVE InsertionSort(_)
InsertionSort(s) ==
    IF s = <<>> THEN <<>>
    ELSE InsertByTs(s[Len(s)], InsertionSort(SubSeq(s, 1, Len(s) - 1)))

unsorted(s) == s
sorted(s) == InsertionSort(s)

\* _get_transactions_page(period) as get_transactions sees it: the request
\* sent (none in development mode, none when no token is held) and, for each
\* answer, the page text or ERROR_LOGGED_OUT.  PageFetch is the set of
\* [sent, raised, r]: r the answer, raised a transport failure.
TxRequest(period) ==
    IF period = "" THEN Req("GET_TRANSACTIONS") ELSE CycleReq(period, token)

TxAnswers(period) ==
    IF dev THEN {[ok |-> TRUE, body |-> transactionsFile]}
    ELSE IF ~MaySend THEN {NoResp}
    ELSE Answers(IF period = "" THEN DefaultPages ELSE CyclePages)

\* What get_transactions does with the page of one request: the file is
\* written (TypeError for ERROR_LOGGED_OUT), the page parsed and filtered,
\* and the call goes on to the cycles left (todo) or returns the sorted list.
\* first: the page is the default page, whose selector gives the cycles.
TxPage(t, r, first, from) ==
    LET page == AuthorisedPage(r)
        all == parse_transactions(page, time_zone)
        required == filter_transactions(all, from)
        todo == IF first THEN parse_cycles_from_page(page) ELSE remaining_periods(periods[t])
        kept == IF first
                  THEN (IF ContinuePaging(required, all) THEN <<>> ELSE required)
                  ELSE transactions[t] \o required
        before == IF first THEN <<>> ELSE fetched[t]
    IN  /\ token' = (IF r.ok THEN token ELSE PyNone)
        /\ IF ~dev /\ WriteError(page) # "ok"
             THEN /\ transactionsFile' = EmptyFile
                  /\ Finish(t, WriteError(page))
                  /\ periods' = [periods EXCEPT ![t] = <<>>]
                  /\ transactions' = [transactions EXCEPT ![t] = <<>>]
                  /\ fetched' = [fetched EXCEPT ![t] = before]
           ELSE IF first /\ page.kind # "transactions"
             THEN /\ transactionsFile' = (IF dev THEN transactionsFile ELSE page)
                  /\ Finish(t, "AttributeError")
                  /\ NoTransactions(t)
           ELSE /\ transactionsFile' = (IF dev THEN transactionsFile ELSE page)
                /\ fetched' = [fetched EXCEPT ![t] = Append(before, all)]
                /\ IF ContinuePaging(required, all) /\ todo # <<>>
                     THEN /\ periods' = [periods EXCEPT ![t] = todo]
                          /\ transactions' = [transactions EXCEPT ![t] = kept]
                          /\ Goto(t, "tx_cycle")
                     ELSE /\ periods' = [periods EXCEPT ![t] = <<>>]
                          /\ transactions' = [transactions EXCEPT ![t] = sorted(kept)]
                          /\ Finish(t, "Transactions")

\* get_transactions(from_ts): the token test, then the default transactions
\* page.  A transport failure leaves get_transactions as an exception.
get_transactions(t) ==
    /\ Call(t, "get_transactions",
            IF Truthy(token) /\ ~dev /\ MaySend THEN <<TxRequest("")>> ELSE <<>>)
    /\ IF ~Truthy(token)
         THEN /\ Finish(t, ERROR_LOGGED_OUT)
              /\ NoTransactions(t)
              /\ \E f \in FromTimestamps : from_ts' = [from_ts EXCEPT ![t] = f]
              /\ UNCHANGED <<token, transactionsFile>>
       ELSE IF dev /\ transactionsFile = AbsentFile
         THEN /\ Finish(t, "IOError")
              /\ NoTransactions(t)
              /\ \E f \in FromTimestamps : from_ts' = [from_ts EXCEPT ![t] = f]
              /\ UNCHANGED <<token, transactionsFile>>
       ELSE \/ /\ ~dev /\ MaySend
               /\ Finish(t, "TransportError")
               /\ NoTransactions(t)
              /\ \E f \in FromTimestamps : from_ts' = [from_ts EXCEPT ![t] = f]
              /\ UNCHANGED <<token, transactionsFile>>
            \/ \E r \in TxAnswers(""), f \in FromTimestamps :
                 /\ from_ts' = [from_ts EXCEPT ![t] = f]
                 /\ TxPage(t, r, TRUE, f)
    /\ writer' = IF Opens(t, Truthy(token)) THEN [writer EXCEPT !.transactions = "this"] ELSE writer
    /\ UNCHANGED <<srvVars, dev, state, browser, balanceFile, csrfToken, resp, time_zone>>

\* One pass of the loop over the cycles: the page of the next cycle.
tx_cycle(t) ==
    /\ pc[t] = "tx_cycle"
    /\ reqs' = [reqs EXCEPT ![t] =
                  IF ~dev /\ MaySend THEN Append(@, TxRequest(Head(periods[t]))) ELSE @]
    /\ \/ /\ ~dev /\ MaySend
          /\ Finish(t, "TransportError")
          /\ periods' = [periods EXCEPT ![t] = <<>>]
          /\ transactions' = [transactions EXCEPT ![t] = <<>>]
          /\ UNCHANGED <<token, transactionsFile, fetched>>
       \/ \E r \in TxAnswers(Head(periods[t])) : TxPage(t, r, FALSE, from_ts[t])
    /\ writer' = IF Opens(t, TRUE) THEN [writer EXCEPT !.transactions = "this"] ELSE writer
    /\ UNCHANGED <<srvVars, dev, state, browser, balanceFile, op, csrfToken, resp, time_zone, from_ts>>

\* ------------------------------------------------------------------- Spec
\* The session life cycle: login and logout from every worker thread.
Next ==
    \E t \in Threads :
        \/ login(t)
        \/ login_set_state(t)
        \/ login_open_main(t)
        \/ login_user_id(t)
        \/ login_phrase(t)
        \/ login_validate(t)
        \/ login_security(t)
        \/ login_open_home(t)
        \/ login_result(t)
        \/ logout(t)
        \/ logout_response(t)

Spec == Init /\ [][Next]_vars

\* The authorised reads and logout of one caller, one call after the other,
\* on a Session constructed as server.py constructs it (dev=False): either
\* as constructed, or as a successful login leaves it.
Caller == 1

InitTx ==
    /\ dev = FALSE
    /\ state = STATE_IDLE
    /\ \/ token = PyFalse /\ browser = NoBrowser
       \/ token \in Tokens /\ browser \in HomePages
    /\ InitRest

NextTx ==
    \/ logout(Caller)
    \/ logout_response(Caller)
    \/ get_balance(Caller)
    \/ get_transactions(Caller)
    \/ tx_cycle(Caller)

SpecTx == InitTx /\ [][NextTx]_vars

\* A development-mode Session, logged in (login() stores "DUMMY" and creates
\* no browser), beside another Session of the process in normal mode: both
\* use the files of test_pages.
InitShared ==
    /\ dev = TRUE
    /\ state = STATE_IDLE
    /\ token = DUMMY
    /\ browser = NoBrowser
    /\ InitRest

\* _get_balance_page of the other Session: the answer to its request is
\* written to test_pages/balance.html (a redirect empties the file).
other_get_balance_page ==
    /\ \E r \in Answers(BalanceBodies) :
          balanceFile' = (IF WriteError(AuthorisedPage(r)) # "ok" THEN EmptyFile ELSE AuthorisedPage(r))
    /\ writer' = [writer EXCEPT !.balance = "other"]
    /\ UNCHANGED <<srvVars, sessVars, transactionsFile, pc, op, ret, csrfToken, resp, reqs, time_zone, txVars>>

\* _get_transactions_page of the other Session: the answer to its request
\* is written to test_pages/transactions.html (a redirect empties the file).
other_get_transactions_page ==
    /\ \E r \in Answers(DefaultPages \cup CyclePages) :
          transactionsFile' = (IF WriteError(AuthorisedPage(r)) # "ok" THEN EmptyFile ELSE AuthorisedPage(r))
    /\ writer' = [writer EXCEPT !.transactions = "other"]
    /\ UNCHANGED <<srvVars, sessVars, balanceFile, pc, op, ret, csrfToken, resp, reqs, time_zone, txVars>>

NextShared ==
    \/ get_balance(Caller)
    \/ get_transactions(Caller)
    \/ tx_cycle(Caller)
    \/ other_get_balance_page
    \/ other_get_transactions_page

SpecShared == InitShared /\ [][NextShared]_vars

\* ------------------------------------------------------------ server.py
\* The /get-balance handler for one handle, run by the request threads.
\* The handler answers http and is left.
Answer(t, a) ==
    /\ http' = [http EXCEPT ![t] = a]
    /\ handler' = [handler EXCEPT ![t] = "none"]

\* "if not token or token not in token_to_api": a request with the handle
\* arrives on a thread.
srv_get_balance(t) ==
    /\ handler[t] = "none"
    /\ pc[t] = "idle"
    /\ IF ~store
         THEN Answer(t, "invalid token")
         ELSE /\ handler' = [handler EXCEPT ![t] = "lookup"]
              /\ http' = [http EXCEPT ![t] = "none"]
    /\ op' = [op EXCEPT ![t] = "none"]
    /\ ret' = [ret EXCEPT ![t] = "none"]
    /\ reqs' = [reqs EXCEPT ![t] = <<>>]
    /\ UNCHANGED <<store, sessVars, fileVars, pc, csrfToken, resp, time_zone, txVars>>

\* user_api = token_to_api[token] (KeyError when the handle has been deleted
\* meanwhile), and the is_logged_in() test.
srv_lookup(t) ==
    /\ handler[t] = "lookup"
    /\ IF ~store
         THEN Answer(t, "KeyError")
         ELSE /\ handler' = [handler EXCEPT ![t] = IF Truthy(token) THEN "read" ELSE "login"]
              /\ http' = http
    /\ UNCHANGED <<store, sessVars, fileVars, pc, op, ret, csrfToken, resp, reqs, time_zone, txVars>>

\* user_api.login(), its value not looked at.
srv_login(t) ==
    /\ handler[t] = "login"
    /\ op[t] = "none"
    /\ login(t)

\* balance = user_api.get_balance()
srv_read(t) ==
    /\ \/ handler[t] = "read" /\ op[t] = "none"
       \/ handler[t] = "login" /\ op[t] = "login" /\ pc[t] = "idle" /\ ret[t] \notin Exceptions
    /\ get_balance(t)

\* The answer: an exception of the connector leaves the handler; on
\* ERROR_LOGGED_OUT the handle is deleted (KeyError when it has been deleted
\* meanwhile); otherwise the balance.
srv_answer(t) ==
    /\ handler[t] \in {"read", "login"}
    /\ pc[t] = "idle"
    /\ op[t] = "get_balance" \/ (op[t] = "login" /\ ret[t] \in Exceptions)
    /\ IF ret[t] \in Exceptions
         THEN Answer(t, "error") /\ store' = store
       ELSE IF ret[t] = ERROR_LOGGED_OUT
         THEN IF store
                THEN Answer(t, "invalid token") /\ store' = FALSE
                ELSE Answer(t, "KeyError") /\ store' = store
       ELSE Answer(t, "balance") /\ store' = store
    /\ UNCHANGED <<sessVars, fileVars, pc, op, ret, csrfToken, resp, reqs, time_zone, txVars>>

\* The Session behind the handle as /login stored it (logged in), or after
\* its token has been cleared.
InitServer ==
    /\ dev = FALSE
    /\ state = STATE_IDLE
    /\ token \in Tokens \cup {PyNone}
    /\ browser \in HomePages
    /\ InitRest

NextServer ==
    \E t \in Threads :
        \/ srv_get_balance(t)
        \/ srv_lookup(t)
        \/ srv_login(t)
        \/ login_set_state(t)
        \/ login_open_main(t)
        \/ login_user_id(t)
        \/ login_phrase(t)
        \/ login_validate(t)
        \/ login_security(t)
        \/ login_open_home(t)
        \/ login_result(t)
        \/ srv_read(t)
        \/ srv_answer(t)

SpecServer == InitServer /\ [][NextServer]_vars

\* ---------------------------------------------------------------- parsing
\* _parse_transactions applied to saved pages: a development-mode Session of
\* some time zone reads test_pages/transactions.html, whose rows are cleared
\* or pending, and parses it.
InitParse ==
    /\ dev = TRUE
    /\ state = STATE_IDLE
    /\ token = DUMMY
    /\ browser = NoBrowser
    /\ balanceFile = AbsentFile
    /\ transactionsFile \in SavedPages
    /\ pc = [t \in Threads |-> "idle"]
    /\ op = [t \in Threads |-> "none"]
    /\ ret = [t \in Threads |-> "none"]
    /\ csrfToken = [t \in Threads |-> NoTok]
    /\ resp = [t \in Threads |-> NoResp]
    /\ reqs = [t \in Threads |-> <<>>]
    /\ time_zone \in Offsets
    /\ from_ts = [t \in Threads |-> 0]
    /\ periods = [t \in Threads |-> <<>>]
    /\ transactions = [t \in Threads |-> <<>>]
    /\ fetched = [t \in Threads |-> <<>>]
    /\ writer = [balance |-> "nobody", transactions |-> "nobody"]
    /\ store = TRUE
    /\ handler = [t \in Threads |-> "none"]
    /\ http = [t \in Threads |-> "none"]

NextParse ==
    \/ get_transactions(Caller)
    \/ tx_cycle(Caller)

SpecParse == InitParse /\ [][NextParse]_vars

\* ----------------------------------------------------------------- claims
Range(s) == {s[i] : i \in DOMAIN s}

\* Thread t takes a step of the method it is running.
Steps(t) == pc'[t] # pc[t] \/ reqs'[t] # reqs[t] \/ ret'[t] # ret[t]

\* C1: when the page _login reads after the user-id submission shows a
\* security phrase (a non-empty text) that differs from the expected phrase,
\* that step ends login() with ERROR_BAD_SECURITY_MESSAGE, and the run has
\* sent the landing-page request and the user-id submission and nothing else:
\* no password submission.
C1_MismatchedPhraseStopsLogin ==
    [][\A t \in Threads :
          (/\ pc[t] = "login_phrase"
           /\ Steps(t)
           /\ browser.phrase \notin {"missing", "", validation_message})
          => (/\ pc'[t] = "idle"
              /\ ret'[t] = ERROR_BAD_SECURITY_MESSAGE
              /\ Req("SUBMIT_PASSWORD") \notin Range(reqs'[t])
              /\ reqs'[t] = <<Req("GET_MAIN"), Req("SUBMIT_USER_ID")>>)]_vars

\* C1 witness: a login has returned ERROR_BAD_SECURITY_MESSAGE on a page
\* showing another phrase.
C1_Witness ==
    \E t \in Threads :
        /\ op[t] = "login" /\ pc[t] = "idle"
        /\ ret[t] = ERROR_BAD_SECURITY_MESSAGE
        /\ browser.phrase = "other"
        /\ reqs[t] = <<Req("GET_MAIN"), Req("SUBMIT_USER_ID")>>

\* Positions of _login's protocol steps (after login() has passed its
\* re-entrancy test and set the flag).
LoginProtocolPcs == {"login_open_main", "login_user_id", "login_phrase", "login_validate",
                     "login_security", "login_open_home", "login_result"}

\* C2 (as claimed): at most one login() call is inside the protocol steps of
\* _login at any time, and a login() that finds another in flight returns
\* ERROR_LOGIN_IN_PROGRESS.
C2_OneLoginInFlight ==
    Cardinality({t \in Threads : pc[t] \in LoginProtocolPcs}) <= 1

\* C3: a login that succeeds on the profile link stores the csrfToken local of
\* its own run, which is the token of the landing page read at step 1 and is
\* not reassigned by the later steps (whatever tokens the later pages carry).
C3_TokenIsT1 ==
    [][\A t \in Threads :
          /\ (pc[t] = "login_user_id" /\ pc'[t] = "login_phrase")
                => csrfToken'[t] = browser.tok
          /\ (pc[t] \in LoginProtocolPcs \ {"login_open_main", "login_user_id"} /\ pc'[t] # "idle")
                => csrfToken'[t] = csrfToken[t]
          /\ (pc[t] = "login_result" /\ ret'[t] = "Token")
                => (browser.profile /\ token' = csrfToken[t] /\ token' \in Tokens)]_vars

\* C3 witness: a login has succeeded with the landing page's token while the
\* page of the success test carries another token.
C3_Witness ==
    \E t \in Threads :
        /\ op[t] = "login" /\ pc[t] = "idle" /\ ret[t] = "Token"
        /\ ~dev
        /\ browser.profile
        /\ token \in Tokens
        /\ token # browser.tok

\* C4 (as claimed): every finished logout() has returned success (True),
\* also one that found no token and sent no request.
C4_LogoutAlwaysSucceeds ==
    \A t \in Threads :
        (op[t] = "logout" /\ pc[t] = "idle") => ret[t] = "True"

\* ------------------------------------------- claims on the authorised reads
Reads == {"get_balance", "get_transactions"}

\* Thread t enters method m with this step (a method is entered from idle).
Enters(t, m) == pc[t] = "idle" /\ op'[t] = m /\ (pc'[t] # "idle" \/ reqs'[t] # reqs[t] \/ ret'[t] # ret[t] \/ op[t] # m \/ token' # token \/ fileVars' # fileVars \/ txVars' # txVars)

\* Thread t has returned a list from get_transactions.
Returned(t) == op[t] = "get_transactions" /\ pc[t] = "idle" /\ ret[t] = "Transactions"

\* Number of times record x occurs in the parsed pages (a sequence of
\* sequences of records).
Occurrences(x, pages) ==
    Cardinality(UNION {{<<i, j>> : j \in {k \in DOMAIN pages[i] : pages[i][k] = x}} : i \in DOMAIN pages})

\* Records that occur in the parsed pages.
RecordsOf(pages) == UNION {Range(pages[i]) : i \in DOMAIN pages}

\* The parsed page has a record below the bound.
HasOlder(records, from) == \E i \in DOMAIN records : records[i].ts < from

\* The result of thread t holds exactly the records at or after the bound of
\* the parsed pages, each as often as the pages hold it, and nothing else.
ResultIsInRangeOf(t, pages) ==
    \A x \in RecordsOf(pages) \cup Range(transactions[t]) :
        Occurrences(x, <<transactions[t]>>) = (IF x.ts >= from_ts[t] THEN Occurrences(x, pages) ELSE 0)

\* C5: a get_balance() or get_transactions() entered while the Session holds
\* no token (False as constructed, None after a logout or after a redirected
\* fetch) returns ERROR_LOGGED_OUT in that step and has issued no request.
C5_NoTokenNoFetch ==
    [][\A t \in Threads : \A m \in Reads :
          (Enters(t, m) /\ token \in {PyFalse, PyNone})
          => (/\ pc'[t] = "idle"
              /\ ret'[t] = ERROR_LOGGED_OUT
              /\ reqs'[t] = <<>>
              /\ token' = token)]_vars

\* C5 witness: get_transactions has returned ERROR_LOGGED_OUT without a
\* request on a Session whose token an earlier redirected balance fetch has
\* cleared (the browser exists, the balance file was emptied).
C5_Witness ==
    /\ op[Caller] = "get_transactions" /\ pc[Caller] = "idle"
    /\ ret[Caller] = ERROR_LOGGED_OUT
    /\ reqs[Caller] = <<>>
    /\ token = PyNone
    /\ browser # NoBrowser
    /\ balanceFile = EmptyFile

\* C6 (as claimed): a step of get_balance or get_transactions in which a
\* Session holding a token sends a request whose answer resolves to another
\* URL (the step clears the token) ends the call with ERROR_LOGGED_OUT, and
\* the token is absent afterwards.
C6_RedirectReturnsLoggedOut ==
    [][\A t \in Threads :
          (/\ op'[t] \in Reads
           /\ Len(reqs'[t]) > (IF pc[t] = "idle" THEN 0 ELSE Len(reqs[t]))
           /\ token \in Tokens
           /\ token' \notin Tokens)
          => (/\ pc'[t] = "idle"
              /\ ret'[t] = ERROR_LOGGED_OUT
              /\ token' = PyNone)]_vars

\* C7 (as claimed): the list get_transactions returns holds exactly the
\* records at or after from_ts of every page fetched during the call, the
\* default page included.
C7_ResultIsUnionOfAllPages ==
    \A t \in Threads :
        Returned(t) => ResultIsInRangeOf(t, fetched[t])

\* C7: the list get_transactions returns holds exactly the records at or
\* after from_ts of the default page when that page has a record below
\* from_ts, and otherwise exactly the records at or after from_ts of the
\* cycle pages fetched during the call (the records of the default page are
\* then left out); no record below from_ts is in it.
C7_ResultIsDefaultOrCycles ==
    \A t \in Threads :
        Returned(t) =>
            /\ fetched[t] # <<>>
            /\ ResultIsInRangeOf(t, IF HasOlder(fetched[t][1], from_ts[t])
                                      THEN <<fetched[t][1]>>
                                      ELSE Tail(fetched[t]))
            /\ \A i \in DOMAIN transactions[t] : transactions[t][i].ts >= from_ts[t]

\* C7 witness: get_transactions has returned the in-range records of a cycle
\* page (one record of that page being below the bound) after a default page
\* whose records, all in range, are not part of the result.
C7_Witness ==
    /\ Returned(Caller)
    /\ Len(fetched[Caller]) = 2
    /\ fetched[Caller][1] # <<>>
    /\ ~HasOlder(fetched[Caller][1], from_ts[Caller])
    /\ HasOlder(fetched[Caller][2], from_ts[Caller])
    /\ Len(transactions[Caller]) = 1
    /\ Len(transactions[Caller]) < Len(fetched[Caller][1]) + Len(fetched[Caller][2])

\* C8: every list get_transactions returns is in non-decreasing order of ts.
C8_ResultSortedByTs ==
    \A t \in Threads :
        Returned(t) =>
            \A i, j \in DOMAIN transactions[t] :
                i < j => transactions[t][i].ts <= transactions[t][j].ts

\* C8 witness: get_transactions has returned two records of different times
\* from cycle pages, the later record coming first in the order the pages
\* and their rows were read.
C8_Witness ==
    /\ Returned(Caller)
    /\ Len(transactions[Caller]) = 2
    /\ transactions[Caller][1].ts < transactions[Caller][2].ts
    /\ \/ /\ Len(fetched[Caller]) = 2
          /\ Len(fetched[Caller][2]) = 2
          /\ fetched[Caller][2][1].ts > fetched[Caller][2][2].ts
       \/ /\ Len(fetched[Caller]) = 3
          /\ Len(fetched[Caller][2]) = 1 /\ Len(fetched[Caller][3]) = 1
          /\ fetched[Caller][2][1].ts > fetched[Caller][3][1].ts

\* C9: while and after get_transactions runs, if the default page it parsed
\* has a record below from_ts, the default page is the only page fetched:
\* the call has ended at that page and its one request is GET_TRANSACTIONS.
C9_OlderOnDefaultPageStops ==
    \A t \in Threads :
        (/\ op[t] = "get_transactions"
         /\ fetched[t] # <<>>
         /\ HasOlder(fetched[t][1], from_ts[t]))
        => (/\ pc[t] = "idle"
            /\ Len(fetched[t]) = 1
            /\ reqs[t] = <<Req("GET_TRANSACTIONS")>>)

\* C9 witness: get_transactions has returned after the default page alone,
\* which has a record below from_ts and a record in range, although the
\* page's selector lists cycles.
C9_Witness ==
    /\ Returned(Caller)
    /\ Len(fetched[Caller]) = 1
    /\ HasOlder(fetched[Caller][1], from_ts[Caller])
    /\ transactions[Caller] # <<>>
    /\ transactionsFile.kind = "transactions"
    /\ \E i \in DOMAIN transactionsFile.options : transactionsFile.options[i] # ""
    /\ reqs[Caller] = <<Req("GET_TRANSACTIONS")>>

\* C10 (as claimed): a get_transactions that returns a list after a default
\* page whose records are all at or after from_ts (an empty page included)
\* has requested at least one cycle page.
C10_AllInRangeFetchesCycle ==
    \A t \in Threads :
        (/\ Returned(t)
         /\ fetched[t] # <<>>
         /\ ~HasOlder(fetched[t][1], from_ts[t]))
        => (/\ Len(fetched[t]) >= 2
            /\ \E i \in DOMAIN reqs[t] : reqs[t][i].name = "POST_TRANSACTIONS")

\* C10: when the records of the default page are all at or after from_ts (an
\* empty page included) and the page's selector has an option with a
\* non-empty value, get_transactions does not return at that page: its next
\* step requests the page of the first such option, with the Session's token
\* as csrfToken.  (Without such an option it returns without another fetch.)
C10_AllInRangeFetchesListedCycle ==
    [][\A t \in Threads :
          /\ (/\ Enters(t, "get_transactions")
              /\ ~dev
              /\ Len(fetched'[t]) = 1
              /\ ~HasOlder(fetched'[t][1], from_ts'[t])
              /\ transactionsFile'.kind = "transactions"
              /\ \E i \in DOMAIN transactionsFile'.options : transactionsFile'.options[i] # "")
             => (/\ pc'[t] = "tx_cycle"
                 /\ periods'[t] # <<>>
                 /\ Head(periods'[t]) =
                      transactionsFile'.options[
                          CHOOSE i \in DOMAIN transactionsFile'.options :
                              /\ transactionsFile'.options[i] # ""
                              /\ \A j \in 1..(i - 1) : transactionsFile'.options[j] = ""])
          /\ (pc[t] = "tx_cycle" /\ token \in Tokens /\ browser # NoBrowser /\ ~dev /\ Steps(t))
             => reqs'[t] = Append(reqs[t], CycleReq(Head(periods[t]), token))]_vars

\* C10 witness: get_transactions has returned a list after a default page
\* with records, all in range, and the requests of two cycle pages.
C10_Witness ==
    /\ Returned(Caller)
    /\ Len(fetched[Caller]) = 3
    /\ fetched[Caller][1] # <<>>
    /\ ~HasOlder(fetched[Caller][1], from_ts[Caller])
    /\ Len(reqs[Caller]) = 3
    /\ reqs[Caller][2] = CycleReq("CURRENT", token)
    /\ reqs[Caller][3] = CycleReq("PREVIOUS", token)

\* ------------------------------------------------- claims on login's errors
\* The requests of one _login run, in the order of the code.
LoginProtocol == <<Req("GET_MAIN"), Req("SUBMIT_USER_ID"), Req("SUBMIT_PASSWORD"),
                   Req("GET_VALIDATE"), Req("SUBMIT_SECURITY_ANSWER"), Req("GET_MAIN")>>

\* C11: a login() never ends with the transport exception itself; a step of
\* login() that ends it with CONNECTION_ERROR has sent one request (the one
\* that failed, once), the requests of the attempt are the protocol's
\* requests up to that one, each sent once, and the attempt sends nothing
\* after it.
C11_TransportFailureEndsLogin ==
    [][\A t \in Threads :
          /\ (op'[t] = "login" /\ pc'[t] = "idle") => ret'[t] # "TransportError"
          /\ (pc[t] \in LoginProtocolPcs /\ ret'[t] = CONNECTION_ERROR)
                => (/\ pc'[t] = "idle"
                    /\ Len(reqs'[t]) = Len(reqs[t]) + 1
                    /\ reqs'[t] = SubSeq(LoginProtocol, 1, Len(reqs'[t]))
                    /\ state' = STATE_IDLE)
          /\ (op[t] = "login" /\ pc[t] = "idle" /\ ret[t] = CONNECTION_ERROR /\ op'[t] = "login"
              /\ pc'[t] = "idle" /\ ret'[t] = CONNECTION_ERROR)
                => reqs'[t] = reqs[t]]_vars

\* C11 witness: a login() has returned CONNECTION_ERROR on the failure of the
\* password submission, the third and last request of the attempt.
C11_Witness ==
    \E t \in Threads :
        /\ op[t] = "login" /\ pc[t] = "idle"
        /\ ret[t] = CONNECTION_ERROR
        /\ reqs[t] = <<Req("GET_MAIN"), Req("SUBMIT_USER_ID"), Req("SUBMIT_PASSWORD")>>

\* C12 (as claimed): no get_balance(), get_transactions() or logout() ends
\* with the transport exception of its request: the failure reaches the
\* caller as the code CONNECTION_ERROR.
C12_TransportFailureIsClassified ==
    \A t \in Threads :
        (op[t] \in Reads \cup {"logout"} /\ pc[t] = "idle")
        => ret[t] # "TransportError"

\* The steps of _login that read the token of the browser's page, with the
\* form each selects.
TokenSteps == {"login_user_id", "login_phrase", "login_security"}

\* C13 (as claimed): a step of _login that has to read the token of a page
\* without the token pattern (the landing page; the page with the expected
\* phrase; the page with the challenge form) ends login() with a classified
\* error code, not with an exception.
C13_MissingTokenIsClassified ==
    [][\A t \in Threads :
          (/\ pc[t] \in TokenSteps
           /\ Steps(t)
           /\ browser.form \notin {"nobrowser", "blank"}
           /\ browser.tok = NoTok
           /\ pc[t] = "login_phrase" => browser.phrase = validation_message
           /\ pc[t] = "login_security" => browser.form = "challenge")
          => (pc'[t] = "idle" /\ ret'[t] \notin Exceptions)]_vars

\* A step of thread t that sends a request through the Session's browser or
\* writes the Session's browser or token.
Acts(t) ==
    /\ Steps(t)
    /\ \/ Len(reqs'[t]) > (IF pc[t] = "idle" THEN 0 ELSE Len(reqs[t]))
       \/ browser' # browser
       \/ token' # token

\* C14 (as claimed): while a thread is inside an operation on the Session
\* (past its first request, before its return), no other thread sends a
\* request through the Session's browser or writes its browser or token.
C14_OperationsNotInterleaved ==
    [][\A t, u \in Threads :
          (t # u /\ pc[u] \notin {"idle", "login_set_state"} /\ Len(reqs[u]) > 0)
          => ~Acts(t)]_vars

\* C17 (as claimed): whenever no login() call is in flight, _state is
\* STATE_IDLE.
C17_IdleWhenNoLoginInFlight ==
    (\A t \in Threads : pc[t] \notin LoginProtocolPcs) => state = STATE_IDLE

\* C19 (as claimed): when the page read after the user-id submission has no
\* security-phrase element, or one with an empty text, that step ends
\* login() with ERROR_BAD_USER_ID and the attempt has sent neither the
\* password nor the security answer.
C19_NoPhraseIsBadUserId ==
    [][\A t \in Threads :
          (/\ pc[t] = "login_phrase"
           /\ Steps(t)
           /\ browser.form \notin {"nobrowser", "blank"}
           /\ browser.phrase \in {"missing", ""})
          => (/\ pc'[t] = "idle"
              /\ ret'[t] = ERROR_BAD_USER_ID
              /\ reqs'[t] = <<Req("GET_MAIN"), Req("SUBMIT_USER_ID")>>)]_vars

\* C20: when the page the browser shows after the password submission and
\* the validation fetch has no challenge form, that step ends login() with
\* ERROR_BAD_PASSWORD and sends nothing; and whenever an attempt sends the
\* security answer, the two requests before it are the password submission
\* and the validation fetch, in this order.
C20_NoChallengeFormIsBadPassword ==
    [][\A t \in Threads :
          /\ (/\ pc[t] = "login_security"
              /\ Steps(t)
              /\ browser.form \notin {"nobrowser", "blank", "challenge"})
             => (/\ pc'[t] = "idle"
                 /\ ret'[t] = ERROR_BAD_PASSWORD
                 /\ reqs'[t] = reqs[t]
                 /\ Req("SUBMIT_SECURITY_ANSWER") \notin Range(reqs'[t]))
          /\ \A i \in DOMAIN reqs'[t] :
                reqs'[t][i] = Req("SUBMIT_SECURITY_ANSWER")
                => (/\ i >= 3
                    /\ reqs'[t][i - 2] = Req("SUBMIT_PASSWORD")
                    /\ reqs'[t][i - 1] = Req("GET_VALIDATE"))]_vars

\* C20 witness: one login() has returned ERROR_BAD_PASSWORD after the
\* validation fetch on a page without the challenge form, and another has
\* sent the security answer.
C20_Witness ==
    \E t, u \in Threads :
        /\ op[t] = "login" /\ pc[t] = "idle" /\ ret[t] = ERROR_BAD_PASSWORD
        /\ reqs[t] = SubSeq(LoginProtocol, 1, 4)
        /\ browser.form \notin {"nobrowser", "blank", "challenge"}
        /\ op[u] = "login" /\ Len(reqs[u]) >= 5
        /\ reqs[u][5] = Req("SUBMIT_SECURITY_ANSWER")

\* The option values of a selector that are not empty, in the selector's order.
ListedCycles(options) ==
    LET NotEmpty(v) == v # "" IN SelectSeq(options, NotEmpty)

\* C18: in a get_transactions whose default page has no record below
\* from_ts, the cycles to fetch are the non-empty option values of that page
\* in their order (none: the call returns at once); each later step requests
\* the first cycle left, and after its page either returns (the page has a
\* record below from_ts, or it was the last cycle) or goes on with the cycles
\* after it; so only the last page fetched can have a record below from_ts,
\* no request is sent twice, and the call sends at most 1 + MaxCycles
\* requests.
C18_CyclesFetchedInOrderUntilOlder ==
    [][\A t \in Threads :
          /\ (/\ Enters(t, "get_transactions")
              /\ ~dev
              /\ Len(fetched'[t]) = 1
              /\ ~HasOlder(fetched'[t][1], from_ts'[t])
              /\ transactionsFile'.kind = "transactions")
             => IF ListedCycles(transactionsFile'.options) = <<>>
                  THEN pc'[t] = "idle" /\ ret'[t] = "Transactions" /\ Len(reqs'[t]) = 1
                  ELSE pc'[t] = "tx_cycle" /\ periods'[t] = ListedCycles(transactionsFile'.options)
          /\ (pc[t] = "tx_cycle" /\ Steps(t) /\ ~dev /\ token \in Tokens /\ browser # NoBrowser)
             => (/\ periods[t] # <<>>
                 /\ reqs'[t] = Append(reqs[t], CycleReq(Head(periods[t]), token))
                 /\ Len(fetched'[t]) = Len(fetched[t]) + 1
                      => IF HasOlder(fetched'[t][Len(fetched'[t])], from_ts[t]) \/ Len(periods[t]) = 1
                           THEN pc'[t] = "idle" /\ ret'[t] = "Transactions"
                           ELSE pc'[t] = "tx_cycle" /\ periods'[t] = Tail(periods[t]))
          /\ op'[t] = "get_transactions"
             => (/\ \A i \in 1..(Len(fetched'[t]) - 1) : ~HasOlder(fetched'[t][i], from_ts'[t])
                 /\ \A i, j \in DOMAIN reqs'[t] : i # j => reqs'[t][i] # reqs'[t][j]
                 /\ Len(reqs'[t]) <= 1 + MaxCycles
                 /\ Len(fetched'[t]) <= Len(reqs'[t]))]_vars

\* C18 witness: get_transactions has returned after the default page without
\* a record below from_ts and the page of the cycle CURRENT, which has a
\* record below from_ts and a record in range; these are its two requests.
C18_Witness ==
    /\ Returned(Caller)
    /\ reqs[Caller] = <<Req("GET_TRANSACTIONS"), CycleReq("CURRENT", token)>>
    /\ Len(fetched[Caller]) = 2
    /\ ~HasOlder(fetched[Caller][1], from_ts[Caller])
    /\ HasOlder(fetched[Caller][2], from_ts[Caller])
    /\ \E i \in DOMAIN fetched[Caller][2] : fetched[Caller][2][i].ts >= from_ts[Caller]
    /\ transactionsFile.rows # <<>>

\* C15 (as claimed): a call on a Session never reads a test_pages file that
\* a call on another Session wrote: when get_balance or get_transactions of
\* a Session reads balance.html or transactions.html (development mode, a
\* token being held), the file was last written by the Session itself or by
\* nobody.
C15_NoFileSharedBetweenSessions ==
    [][\A t \in Threads :
          /\ (Enters(t, "get_balance") /\ dev /\ Truthy(token))
                => writer.balance # "other"
          /\ ((Enters(t, "get_transactions") /\ dev /\ Truthy(token))
              \/ (pc[t] = "tx_cycle" /\ Steps(t) /\ dev))
                => writer.transactions # "other"]_vars

\* C16 (as claimed): no /get-balance request for the handle ends in an
\* unhandled KeyError of the handle store, and once a request has been
\* answered "invalid token" the handle is not in the store.
C16_LoggedOutRemovesHandle ==
    \A t \in Threads :
        /\ http[t] # "KeyError"
        /\ http[t] = "invalid token" => ~store

\* C21 as stated: the request issued right after the security answer is the
\* fetch that was issued right after the password submission.
FetchAfter(t, r) ==
    {reqs[t][i + 1] : i \in {j \in 1..(Len(reqs[t]) - 1) : reqs[t][j] = Req(r)}}

C21_AfterAnswerFetchesValidationUrl ==
    \A t \in Threads :
        op[t] = "login" =>
            FetchAfter(t, "SUBMIT_SECURITY_ANSWER") \subseteq FetchAfter(t, "SUBMIT_PASSWORD")

\* C21 amended: in every login run that submits the security answer, the
\* request issued right after that submission is a fetch of MAIN_PAGE_URL, the
\* URL of the run's first request and not the validation URL fetched after the
\* password; outside development mode a login returns its token only right
\* after that fetch, on a page of the browser that carries the profile link.
C21_AfterAnswerFetchesMainPage ==
    [][\A t \in Threads :
          /\ op'[t] = "login" =>
                \A r \in FetchAfter(t, "SUBMIT_SECURITY_ANSWER")' :
                    /\ r = Req("GET_MAIN")
                    /\ r = reqs'[t][1]
                    /\ r \notin FetchAfter(t, "SUBMIT_PASSWORD")'
          /\ (~dev /\ op[t] = "login" /\ pc[t] # "idle" /\ pc'[t] = "idle" /\ ret'[t] = "Token") =>
                /\ browser.profile
                /\ reqs[t] = LoginProtocol]_vars

C21_Witness ==
    \E t \in Threads :
        /\ op[t] = "login" /\ pc[t] = "idle" /\ ret[t] = "Token"
        /\ FetchAfter(t, "SUBMIT_SECURITY_ANSWER") = {Req("GET_MAIN")}
        /\ FetchAfter(t, "SUBMIT_PASSWORD") = {Req("GET_VALIDATE")}

\* C22: every row of a parsed page whose status is not "pending" in any
\* letter case gives a verified record whose timestamp is the row's local time
\* converted to UTC (local time minus the zone's offset); every row whose
\* status is "pending" gives an unverified record whose timestamp is the
\* conversion of the local time moved by 5 + o hours, o the zone's offset in
\* hours: 0 hours for o = -5 and 6 hours for o = 1.
IsPending(status) == status \in {"pending", "Pending", "PENDING"}

LocalShift(o) == IF o = 0 - 5 THEN 0 ELSE IF o = 1 THEN 6 ELSE 5 + o

C22_PendingRowsShiftedByFivePlusOffset ==
    \A k \in DOMAIN fetched[Caller] :
        /\ Len(fetched[Caller][k]) = Len(transactionsFile.rows)
        /\ \A j \in DOMAIN fetched[Caller][k] :
              LET row == transactionsFile.rows[j]
                  rec == fetched[Caller][k][j]
              IN  IF IsPending(row.status)
                    THEN /\ ~rec.vertified
                         /\ rec.ts = (row.time + LocalShift(time_zone)) - time_zone
                         /\ LocalShift(time_zone) = 5 + time_zone
                    ELSE /\ rec.vertified
                         /\ rec.ts = row.time - time_zone

C22_Witness ==
    /\ op[Caller] = "get_transactions" /\ pc[Caller] = "idle"
    /\ time_zone = 1
    /\ \E k \in DOMAIN fetched[Caller] :
          \E i, j \in DOMAIN fetched[Caller][k] :
              /\ transactionsFile.rows[i].status = "PENDING"
              /\ ~fetched[Caller][k][i].vertified
              /\ fetched[Caller][k][i].ts = transactionsFile.rows[i].time + 5
              /\ transactionsFile.rows[j].status = "Posted"
              /\ fetched[Caller][k][j].vertified

\* C23: when login() returns a failure code, the Session holds no
\* authentication token afterwards (is_logged_in() is falsy), whatever it held
\* before the attempt.  Stated for attempts that return while no other thread
\* is inside an operation.
LoginFailures ==
    {ERROR_BAD_USER_ID, ERROR_BAD_SECURITY_MESSAGE, ERROR_BAD_PASSWORD,
     ERROR_BAD_SECURITY_ANSWER, CONNECTION_ERROR}

C23_FailedLoginHoldsNoToken ==
    [][\A t \in Threads :
          (/\ op[t] = "login" /\ pc[t] # "idle" /\ pc'[t] = "idle"
           /\ ret'[t] \in LoginFailures
           /\ \A u \in Threads \ {t} : pc[u] = "idle")
          => ~Truthy(token')]_vars
====
